---- MODULE Spec2Model ----
(***************************************************************************)
(* The Sponsors and FAQ pages of the Bastion website.                      *)
(*                                                                         *)
(* Both pages are React components without state of their own: render()   *)
(* reads a JSON fixture imported at module level (sponsors.json, an array  *)
(* of records; faq.json, an object from category name to array of items)   *)
(* and returns a tree of elements.  The model keeps the fixtures, the      *)
(* JavaScript heap that holds the arrays of faq.json and the array built   *)
(* by FAQPage.questions, and the result of the last call of each method.   *)
(*                                                                         *)
(* DefaultLayout wraps a page: its constructor greets on the console, its  *)
(* render() puts what props.children() gives inside <main>.                *)
(***************************************************************************)
EXTENDS Integers, Sequences, FiniteSets, TLC

VARIABLES
    sponsors,        \* the array imported from sponsors.json
    faq,             \* the object imported from faq.json: its own properties,
                     \* in the order the file stores them
    heap,            \* array reference -> contents, for every live array
    returned,        \* what the last FAQPage.questions() call handed to its
                     \* caller: an array (a reference into heap) or a
                     \* TypeError; undefined before the first call
    sponsorsOut,     \* what the last SponsorsPage.render() produced
    faqOut,          \* what the last FAQPage.render() produced
    sponsorsRenders, \* number of SponsorsPage.render() calls so far
    faqRenders,      \* number of FAQPage.render() calls so far
    lastEdit         \* the last change made from outside the pages, to a
                     \* fixture file between builds or by a caller to the
                     \* array questions() returned: what was changed, and
                     \* how many renders had happened
VARIABLES
    layoutProps,     \* the props of the mounted DefaultLayout: the page its
                     \* children function gives; undefined while none is
                     \* mounted
    console,         \* the calls made on the console so far
    layoutOut,       \* what the last render() of the mounted layout produced
    layoutRenders,   \* number of render() calls on the mounted layout
    childrenCalls,   \* number of calls of its props.children
    constructions    \* number of DefaultLayout instances constructed so far

layoutVars == <<layoutProps, console, layoutOut, layoutRenders,
                childrenCalls, constructions>>

vars == <<sponsors, faq, heap, returned, sponsorsOut, faqOut,
          sponsorsRenders, faqRenders, lastEdit, layoutProps, console,
          layoutOut, layoutRenders, childrenCalls, constructions>>

----------------------------------------------------------------------------
(* Bounds of the model *)

MaxSponsors == 2
MaxCategories == 2
MaxFaqItems == 2
MaxRenders == 3
MaxWrites == 1
MaxConstructions == 2

----------------------------------------------------------------------------
(* JavaScript values *)

UNDEFINED == "<undefined>"

NullValue == [kind |-> "null"]
NumberValue == [kind |-> "number"]

ArrayValue(r) == [kind |-> "array", ref |-> r]

UndefinedValue == [kind |-> "undefined"]

\* The outcome of a call that threw a TypeError instead of returning.
ThrownValue == [kind |-> "TypeError"]

Range(s) == {s[i] : i \in DOMAIN s}

\* Reading a property of null (or undefined) throws a TypeError; reading a
\* property an object lacks gives undefined.
PropertyReadThrows(v) == v.kind = "null"

----------------------------------------------------------------------------
(* React elements *)

Element(tag, props, children) ==
    [tag |-> tag, props |-> props, children |-> children]

NoProps == [none |-> UNDEFINED]

\* A text child: a literal of the JSX or the value of a { } expression.
Text(v) == Element("#text", [value |-> v], <<>>)

HasProp(e, p) == p \in DOMAIN e.props

NotRendered == Element("#not-rendered", NoProps, <<>>)

\* The method did not return: a TypeError left it.
TypeError == Element("#TypeError", NoProps, <<>>)

RECURSIVE Descendants(_)
\* The element and every element below it.
Descendants(e) ==
    {e} \cup UNION {Descendants(e.children[i]) : i \in DOMAIN e.children}

----------------------------------------------------------------------------
(* SponsorsPage *)

HelmetSponsors ==
    Element("Helmet",
            [meta |-> <<[name |-> "twitter:image", property |-> "og:image",
                         content |-> "https://resources.bastionbot.org/og/69e3e903264da46a77deea563573b186.jpg"]>>],
            <<>>)

SponsorsHeader ==
    Element("div", [className |-> "header"],
            <<Element("h1", NoProps, <<Text("Sponsors")>>),
              Element("p", NoProps,
                      <<Text("These are the amazing companies and people who sponsor "),
                        Element("strong", NoProps, <<Text("The Bastion Bot Project")>>),
                        Text(" and keep us running.")>>)>>)

\* A variant of the card that closes the link after the image.
SponsorCardImageLink(sponsor, i) ==
    Element("div", [className |-> "sponsor", key |-> i],
        <<Element("ExternalLink", [to |-> sponsor.url],
            <<Element("div", [className |-> "image"],
                <<Element("img", [src |-> sponsor.image, width |-> "150",
                                  height |-> "150", alt |-> "Sponsor Logo"],
                          <<>>)>>)>>),
          Element("div", [className |-> "details"],
                <<Element("h4", NoProps, <<Text(sponsor.title)>>),
                  Element("p", NoProps, <<Text(sponsor.description)>>)>>)>>)

\* The callback of sponsors.map: the card of one sponsor; i is the index
\* map passes, counted from 0.
SponsorCard(sponsor, i) ==
    Element("div", [className |-> "sponsor", key |-> i],
        <<Element("ExternalLink", [to |-> sponsor.url],
            <<Element("div", [className |-> "image"],
                <<Element("img", [src |-> sponsor.image, width |-> "150",
                                  height |-> "150", alt |-> "Sponsor Logo"],
                          <<>>)>>),
              Element("div", [className |-> "details"],
                <<Element("h4", NoProps, <<Text(sponsor.title)>>),
                  Element("p", NoProps, <<Text(sponsor.description)>>)>>)>>)>>)

\* A variant that guards the list with its length: sponsors.length && ...
SponsorCardsGuarded(s) ==
    IF Len(s) = 0 THEN <<Text("0")>>
    ELSE [i \in 1..Len(s) |-> SponsorCard(s[i], i - 1)]

\* A variant that links every card to the first sponsor.
SponsorCardsFirstUrl(s) ==
    [i \in 1..Len(s) |-> SponsorCard([s[i] EXCEPT !.url = s[1].url], i - 1)]

\* A variant that numbers the cards on from the categories of the FAQ, as a
\* key counter that the two pages share would.
SponsorCardsSharedKeys(s) ==
    [i \in 1..Len(s) |-> SponsorCard(s[i], Len(faq) + i - 1)]

\* A variant that renders a record once, where the array first holds it:
\* [...new Set(...)] before the map.
SponsorCardsUnique(s) ==
    LET first == {i \in 1..Len(s) : \A j \in 1..(i - 1) : s[j] # s[i]}
        rank(i) == Cardinality({j \in first : j <= i})
    IN [k \in 1..Cardinality(first) |->
           SponsorCard(s[CHOOSE i \in first : rank(i) = k], k - 1)]

\* A variant that keys a card by where the array first holds its record:
\* key={ sponsors.indexOf(sponsor) }
SponsorCardsKeyedByIndexOf(s) ==
    [i \in 1..Len(s) |->
        SponsorCard(s[i], (CHOOSE j \in 1..i :
                              s[j] = s[i] /\ \A k \in 1..(j - 1) : s[k] # s[i]) - 1)]

\* sponsors.map(callback): one card per element, in the array's order.
SponsorCards(s) ==
    [i \in 1..Len(s) |-> SponsorCard(s[i], i - 1)]

\* SponsorsPage.render().  The callback reads sponsor.url first: it throws
\* on the first element that is null, and render returns nothing.
SponsorsPage_render(s) ==
    IF \E i \in 1..Len(s) : PropertyReadThrows(s[i])
    THEN TypeError
    ELSE Element("div", [id |-> "sponsors"],
                 <<HelmetSponsors,
                   SponsorsHeader,
                   Element("div", [className |-> "container"], SponsorCards(s))>>)

----------------------------------------------------------------------------
(* FAQPage *)

\* The value of a property name that is an array index ("0", "1", "2", ...),
\* and -1 for any other name.  CategoryNames holds no index above 2.
ArrayIndex(k) ==
    CASE k = "0" -> 0
      [] k = "1" -> 1
      [] k = "2" -> 2
      [] OTHER -> -1

RECURSIVE AscendingIndex(_, _)
\* The positions P of the object's properties, by ascending array index.
AscendingIndex(f, P) ==
    IF P = {} THEN <<>>
    ELSE LET m == CHOOSE i \in P :
                      \A j \in P : ArrayIndex(f[i].key) <= ArrayIndex(f[j].key)
         IN <<m>> \o AscendingIndex(f, P \ {m})

RECURSIVE Ascending(_)
\* The positions P in ascending order: the order the properties were stored.
Ascending(P) ==
    IF P = {} THEN <<>>
    ELSE LET m == CHOOSE i \in P : \A j \in P : i <= j
         IN <<m>> \o Ascending(P \ {m})

\* for (let questionGroup in faq): the order in which for-in visits the
\* properties of an object: the names that are array indices first, by
\* ascending value, then the other names in the order they were stored.
ForInOrder(f) ==
    AscendingIndex(f, {i \in 1..Len(f) : ArrayIndex(f[i].key) >= 0})
    \o Ascending({i \in 1..Len(f) : ArrayIndex(f[i].key) < 0})

\* The smallest reference no live array has.
FreshRef(h) == CHOOSE r \in 1..(Cardinality(DOMAIN h) + 1) :
                   /\ r \notin DOMAIN h
                   /\ \A q \in 1..(r - 1) : q \in DOMAIN h

\* A variant that keeps the array in a variable that outlives the call and
\* is never reset: every call goes on with the array of the last one.
ReusedArray(h) ==
    IF returned.kind = "array"
    THEN [ref |-> returned.ref, heap |-> h]
    ELSE [ref |-> FreshRef(h), heap |-> h @@ (FreshRef(h) :> <<>>)]

\* let questions = []: a new, empty array.
NewArray(h) ==
    [ref |-> FreshRef(h), heap |-> h @@ (FreshRef(h) :> <<>>)]

\* A variant that skips a question the array already holds.
PushIfAbsent(h, q, question) ==
    IF question \in Range(h[q]) THEN h
    ELSE [h EXCEPT ![q] = Append(@, question)]

\* questions.push(question)
Push(h, q, question) ==
    [h EXCEPT ![q] = Append(@, question)]

RECURSIVE ForOfDraining(_, _, _, _)
\* A variant that empties the category as it copies it:
\* while (faq[questionGroup].length) questions.push(faq[questionGroup].shift())
ForOfDraining(h, q, src, idx) ==
    IF Len(h[src]) = 0 THEN h
    ELSE ForOfDraining([Push(h, q, h[src][1]) EXCEPT ![src] = Tail(@)],
                       q, src, idx)

\* A variant that leaves the loop after the first question of a category,
\* as a stray break in the body would.
ForOfFirstOnly(h, q, src, idx) ==
    IF idx > Len(h[src]) THEN h
    ELSE Push(h, q, h[src][idx])

RECURSIVE ForOf(_, _, _, _)
\* for (let question of faq[questionGroup]) { questions.push(question); }
\* over the array src, from index idx on.  The array iterator reads the
\* length of the array at every step.
ForOf(h, q, src, idx) ==
    IF idx > Len(h[src]) THEN h
    ELSE ForOf(Push(h, q, h[src][idx]), q, src, idx + 1)

\* for-of asks the value for its iterator: an array has one; null and a
\* number have none, and the loop throws a TypeError.
Iterable(v) == v.kind = "array"

RECURSIVE ForIn(_, _, _, _)
\* The outer loop of questions() over the properties `order` still to visit.
\* st.thrown says that a TypeError ended the loop.
ForIn(st, f, order, q) ==
    IF order = <<>> \/ st.thrown THEN st
    ELSE LET v == f[Head(order)].value
         IN IF ~Iterable(v)
            THEN [st EXCEPT !.thrown = TRUE]
            ELSE ForIn([st EXCEPT !.heap = ForOf(st.heap, q, v.ref, 1)],
                       f, Tail(order), q)

\* A variant that hands out the category's own array when there is one
\* category only, without copying it.
FAQPage_questionsShortcut(h, f) ==
    IF Len(f) = 1 /\ Iterable(f[1].value)
    THEN [thrown |-> FALSE, heap |-> h, ref |-> f[1].value.ref]
    ELSE LET new == NewArray(h)
             st == ForIn([thrown |-> FALSE, heap |-> new.heap], f,
                         ForInOrder(f), new.ref)
         IN [thrown |-> st.thrown, heap |-> st.heap, ref |-> new.ref]

\* FAQPage.questions(): the heap after the call, the array it returns and
\* whether it threw instead.
FAQPage_questions(h, f) ==
    LET new == NewArray(h)
        st == ForIn([thrown |-> FALSE, heap |-> new.heap], f,
                    ForInOrder(f), new.ref)
    IN [thrown |-> st.thrown, heap |-> st.heap, ref |-> new.ref]

FAQHeader ==
    Element("div", [className |-> "header"],
        <<Element("h1", NoProps, <<Text("Frequently Asked Questions")>>),
          Element("p", NoProps,
            <<Text("Have a question that is not listed here? No worries mate, just head over to the "),
              Element("a", NoProps, <<Text("#help")>>),
              Text(" channel in "),
              Element("a", [href |-> "https://discord.gg/fzx8fkt", target |-> "_blank"],
                      <<Text("Bastion Discord Server")>>),
              Text(", and ask it.")>>)>>)

\* The callback of this.questions().map: the block of one question; i is
\* the index map passes, counted from 0.
QuestionBlock(question, i) ==
    Element("div", [className |-> "question", key |-> i],
        <<Element("h4", NoProps, <<Text(question.question)>>),
          Element("p", NoProps, <<Text(question.answer)>>),
          Element("img", [src |-> question.image, alt |-> ""], <<>>)>>)

\* A variant that shows the last question first: .reverse().map(callback)
QuestionBlocksReversed(qs) ==
    [i \in 1..Len(qs) |-> QuestionBlock(qs[Len(qs) + 1 - i], i - 1)]

\* this.questions().map(callback)
QuestionBlocks(qs) ==
    [i \in 1..Len(qs) |-> QuestionBlock(qs[i], i - 1)]

\* FAQPage.render(): the heap after the call and the tree it returns.  A
\* TypeError of questions(), or of the callback reading question.question
\* of a null item, leaves render without a result.
FAQPage_render(h, f) ==
    LET r == FAQPage_questions(h, f)
        qs == r.heap[r.ref]
    IN [heap |-> r.heap,
        out |-> IF r.thrown \/ \E i \in 1..Len(qs) : PropertyReadThrows(qs[i])
                THEN TypeError
                ELSE Element("div", [id |-> "faq"],
                         <<FAQHeader,
                           Element("div", [className |-> "container"],
                                   QuestionBlocks(qs))>>)]

----------------------------------------------------------------------------
(* The fixtures *)

SponsorRecords ==
    [kind : {"object"}, title : {"Acme"}, description : {"Great tools"},
     image : {"acme.png"},
     url : {"https://acme.example", "https://other.example"}]

\* Records that lack fields, and null in the place of a record.
MalformedSponsors ==
    {NullValue,
     [kind |-> "object", title |-> UNDEFINED, description |-> UNDEFINED,
      image |-> UNDEFINED, url |-> UNDEFINED]}

FAQItems ==
    {[kind |-> "object", question |-> "What is it?", answer |-> "A bot.",
      image |-> UNDEFINED],
     [kind |-> "object", question |-> "Is it free?", answer |-> "Yes.",
      image |-> "free.png"]}

MalformedItems ==
    {NullValue,
     [kind |-> "object", question |-> UNDEFINED, answer |-> UNDEFINED,
      image |-> UNDEFINED]}

CategoryNames == {"general", "1"}

SeqsUpTo(S, n) == UNION {[1..k -> S] : k \in 0..n}

\* The orders in which a file can store up to MaxCategories categories.
CategoryOrders ==
    {ks \in SeqsUpTo(CategoryNames, MaxCategories) :
        \A i, j \in 1..Len(ks) : i # j => ks[i] # ks[j]}

RECURSIVE TotalLen(_, _)
TotalLen(cs, n) == IF n = 0 THEN 0 ELSE Len(cs[n]) + TotalLen(cs, n - 1)

\* The contents of n categories that hold at most MaxFaqItems items in all.
CategoryContents(items, n) ==
    {cs \in [1..n -> SeqsUpTo(items, MaxFaqItems)] :
        TotalLen(cs, n) <= MaxFaqItems}

\* The references of the arrays that are the categories of faq.
CategoryRefs(f) ==
    {f[i].value.ref : i \in {j \in 1..Len(f) : f[j].value.kind = "array"}}

\* The heap without the arrays nothing refers to any more.
Live(h, f, ret) ==
    LET keep == CategoryRefs(f)
                \cup (IF ret.kind = "array" THEN {ret.ref} ELSE {})
    IN [r \in keep \cap DOMAIN h |-> h[r]]

NoEdit == [file |-> "none"]

NothingCalled ==
    /\ lastEdit = NoEdit
    /\ returned = UndefinedValue
    /\ sponsorsOut = NotRendered
    /\ faqOut = NotRendered
    /\ sponsorsRenders = 0
    /\ faqRenders = 0
    /\ layoutProps = UndefinedValue
    /\ console = <<>>
    /\ layoutOut = NotRendered
    /\ layoutRenders = 0
    /\ childrenCalls = 0
    /\ constructions = 0

\* The fixtures as the data model describes them: sponsor records, and
\* categories that are arrays of items.
Init ==
    /\ sponsors \in SeqsUpTo(SponsorRecords, MaxSponsors)
    /\ \E ks \in CategoryOrders :
         \E cs \in CategoryContents(FAQItems, Len(ks)) :
            /\ faq = [i \in 1..Len(ks) |->
                        [key |-> ks[i], value |-> ArrayValue(i)]]
            /\ heap = cs
    /\ NothingCalled

SomeSponsor == CHOOSE s \in SponsorRecords : s.url = "https://acme.example"

SomeItem == CHOOSE q \in FAQItems : q.question = "What is it?"

\* Any JSON the two files can hold in these shapes: records and items that
\* lack fields or are null, categories that are null or a number.
InitMalformed ==
    /\ sponsors \in SeqsUpTo({SomeSponsor} \cup MalformedSponsors, MaxSponsors)
    /\ \E ks \in CategoryOrders :
         \E cs \in CategoryContents({SomeItem} \cup MalformedItems, Len(ks)) :
            \E vs \in [1..Len(ks) -> {"array", "null", "number"}] :
               /\ \A i \in 1..Len(ks) : vs[i] # "array" => cs[i] = <<>>
               /\ faq = [i \in 1..Len(ks) |->
                           [key |-> ks[i],
                            value |-> CASE vs[i] = "array" -> ArrayValue(i)
                                        [] vs[i] = "null" -> NullValue
                                        [] OTHER -> NumberValue]]
               /\ heap = [i \in {j \in 1..Len(ks) : vs[j] = "array"} |-> cs[i]]
    /\ NothingCalled

----------------------------------------------------------------------------
(* The calls *)

\* SponsorsPage.render() is called.
SponsorsRender ==
    /\ sponsorsRenders + faqRenders < MaxRenders
    /\ sponsorsOut' = SponsorsPage_render(sponsors)
    /\ sponsorsRenders' = sponsorsRenders + 1
    /\ UNCHANGED <<sponsors, faq, heap, returned, faqOut, faqRenders,
                   lastEdit>>
    /\ UNCHANGED layoutVars

\* FAQPage.questions() is called, and its caller keeps the array; when the
\* call throws, the caller is left with the TypeError.
FAQQuestions ==
    LET r == FAQPage_questions(heap, faq)
        ret == IF r.thrown THEN ThrownValue ELSE ArrayValue(r.ref)
    IN /\ returned' = ret
       /\ heap' = Live(r.heap, faq, ret)
       /\ UNCHANGED <<sponsors, faq, sponsorsOut, faqOut, sponsorsRenders,
                      faqRenders, lastEdit>>
       /\ UNCHANGED layoutVars

\* FAQPage.render() is called; the array of its questions() call is dropped
\* when render returns.
FAQRender ==
    LET r == FAQPage_render(heap, faq)
    IN /\ sponsorsRenders + faqRenders < MaxRenders
       /\ faqOut' = r.out
       /\ faqRenders' = faqRenders + 1
       /\ heap' = Live(r.heap, faq, returned)
       /\ UNCHANGED <<sponsors, faq, returned, sponsorsOut, sponsorsRenders,
                      lastEdit>>
       /\ UNCHANGED layoutVars

Next == SponsorsRender \/ FAQQuestions \/ FAQRender

Spec == Init /\ [][Next]_vars

SpecMalformed == InitMalformed /\ [][Next]_vars

----------------------------------------------------------------------------
(* Another build of the site *)

\* sponsors.json is changed by one record, appended or removed at the end,
\* before the sponsors page of the new build is first rendered.
EditSponsors ==
    /\ sponsorsRenders = 0
    /\ \/ /\ Len(sponsors) < MaxSponsors
          /\ \E x \in SponsorRecords : sponsors' = Append(sponsors, x)
       \/ /\ sponsors # <<>>
          /\ sponsors' = SubSeq(sponsors, 1, Len(sponsors) - 1)
    /\ lastEdit' = [file |-> "sponsors.json", renders |-> faqRenders]
    /\ UNCHANGED <<faq, heap, returned, sponsorsOut, faqOut, sponsorsRenders,
                   faqRenders>>
    /\ UNCHANGED layoutVars

\* faq.json is changed by one item or one empty category, appended or
\* removed at the end, before the FAQ page of the new build is first used.
EditFaq ==
    LET n == Len(faq)
    IN /\ faqRenders = 0
       /\ returned = UndefinedValue
       /\ \/ /\ n > 0
             /\ TotalLen(heap, n) < MaxFaqItems
             /\ \E x \in FAQItems : heap' = [heap EXCEPT ![n] = Append(@, x)]
             /\ faq' = faq
          \/ /\ n > 0
             /\ heap[n] # <<>>
             /\ heap' = [heap EXCEPT ![n] = SubSeq(@, 1, Len(@) - 1)]
             /\ faq' = faq
          \/ /\ n < MaxCategories
             /\ \E k \in CategoryNames \ {faq[i].key : i \in 1..n} :
                   faq' = Append(faq, [key |-> k, value |-> ArrayValue(n + 1)])
             /\ heap' = Append(heap, <<>>)
          \/ /\ n > 0
             /\ heap[n] = <<>>
             /\ faq' = SubSeq(faq, 1, n - 1)
             /\ heap' = SubSeq(heap, 1, n - 1)
       /\ lastEdit' = [file |-> "faq.json", renders |-> sponsorsRenders]
       /\ UNCHANGED <<sponsors, returned, sponsorsOut, faqOut, sponsorsRenders,
                      faqRenders>>
       /\ UNCHANGED layoutVars

\* The caller of questions() changes the array it was handed: it appends
\* an item, removes the last one, or reverses the array.
CallerWrites ==
    /\ returned.kind = "array"
    /\ (IF lastEdit = NoEdit THEN 0 ELSE lastEdit.writes) < MaxWrites
    /\ LET arr == heap[returned.ref]
           n == Len(arr)
       IN \E new \in {Append(arr, x) : x \in FAQItems}
                     \cup {SubSeq(arr, 1, n - 1) : k \in {n} \ {0}}
                     \cup {[i \in 1..n |-> arr[n + 1 - i]]} :
             /\ new # arr
             /\ heap' = [heap EXCEPT ![returned.ref] = new]
    /\ lastEdit' = [file |-> "returned array", renders |-> faqRenders,
                    writes |-> (IF lastEdit = NoEdit THEN 0
                                ELSE lastEdit.writes) + 1]
    /\ UNCHANGED <<sponsors, faq, returned, sponsorsOut, faqOut,
                   sponsorsRenders, faqRenders>>
    /\ UNCHANGED layoutVars

\* The FAQ page alone; the sponsors page plays no part.
InitCaller == Init /\ sponsors = <<>>

NextCaller == FAQQuestions \/ FAQRender \/ CallerWrites

\* The FAQ page and a caller of questions() that writes to what it gets.
SpecCaller == InitCaller /\ [][NextCaller]_vars

NextBuilds == SponsorsRender \/ FAQRender \/ EditSponsors \/ EditFaq

\* The two renderers, over builds of the site that differ in their fixtures.
SpecBuilds == Init /\ [][NextBuilds]_vars

----------------------------------------------------------------------------
(* DefaultLayout *)

ConsoleCall(method, message) == [method |-> method, message |-> message]

Greeting == ConsoleCall("log", "Hello!")

InviteHQ == ConsoleCall("log", "[Bastion HQ]: https://discord.gg/fzx8fkt")

InviteBot ==
    ConsoleCall("log", "[Invite Bastion]: https://discordapp.com/oauth2/authorize?client_id=267035345537728512&scope=bot&permissions=2146958463")

\* A constructor that leaves the group it opened open.
DefaultLayout_constructorUnclosed(c) ==
    c \o <<Greeting,
           ConsoleCall("group", "[SPECIAL INVITES]"),
           ConsoleCall("log", "Since you're here. Here're some quick invite links."),
           InviteHQ,
           InviteBot>>

\* The console after the constructor of DefaultLayout has run.
DefaultLayout_constructor(c) ==
    c \o <<Greeting,
           ConsoleCall("group", "[SPECIAL INVITES]"),
           ConsoleCall("log", "Since you're here. Here're some quick invite links."),
           InviteHQ,
           InviteBot,
           ConsoleCall("groupEnd", UNDEFINED)>>

LayoutHelmet ==
    Element("Helmet",
            [title |-> "The Bastion Bot - One of the best Discord Bot",
             meta |-> <<[name |-> "twitter:title", property |-> "og:title",
                         content |-> "The Bastion Bot - One of the best Discord Bot"],
                        [name |-> "description",
                         content |-> "Give awesome perks to your Discord server!"],
                        [name |-> "twitter:description",
                         property |-> "og:description",
                         content |-> "Give awesome perks to your Discord server!"],
                        [name |-> "twitter:image", property |-> "og:image",
                         content |-> "https://resources.bastionbot.org/og-image.jpg"]>>],
            <<>>)

\* The pages a layout can be given.
Pages == {"SponsorsPage", "FAQPage"}

\* What the page of props.children shows with the fixtures as they are.
PageContent(page) ==
    IF page = "SponsorsPage" THEN SponsorsPage_render(sponsors)
    ELSE FAQPage_render(heap, faq).out

\* this.props.children(): one more call, and the content it gives.
CallChildren(props, calls) ==
    [calls |-> calls + 1, value |-> PageContent(props.children)]

\* A render that asks for the content twice and shows both.
DefaultLayout_renderTwice(props, calls) ==
    LET first == CallChildren(props, calls)
        second == CallChildren(props, first.calls)
    IN [calls |-> second.calls,
        out |-> Element("root", NoProps,
                        <<LayoutHelmet,
                          Element("Header", NoProps, <<>>),
                          Element("main", NoProps,
                                  <<first.value, second.value>>),
                          Element("Footer", NoProps, <<>>),
                          Element("SiteBanner", NoProps, <<>>),
                          Element("BackToTop", NoProps, <<>>)>>)]

\* DefaultLayout.render(): the tree it returns and the number of calls of
\* props.children after it.
DefaultLayout_render(props, calls) ==
    LET content == CallChildren(props, calls)
    IN [calls |-> content.calls,
        out |-> Element("root", NoProps,
                        <<LayoutHelmet,
                          Element("Header", NoProps, <<>>),
                          Element("main", NoProps, <<content.value>>),
                          Element("Footer", NoProps, <<>>),
                          Element("SiteBanner", NoProps, <<>>),
                          Element("BackToTop", NoProps, <<>>)>>)]

\* A DefaultLayout is constructed for a page; it takes the place of the one
\* mounted before, if any.
LayoutConstruct ==
    /\ constructions < MaxConstructions
    /\ \E page \in Pages : layoutProps' = [children |-> page]
    /\ console' = DefaultLayout_constructor(console)
    /\ constructions' = constructions + 1
    /\ layoutOut' = NotRendered
    /\ layoutRenders' = 0
    /\ childrenCalls' = 0
    /\ UNCHANGED <<sponsors, faq, heap, returned, sponsorsOut, faqOut,
                   sponsorsRenders, faqRenders, lastEdit>>

\* render() is called on the mounted layout; the page inside it is rendered
\* with it, and the array of its questions() call is dropped.
LayoutRender ==
    /\ layoutProps # UndefinedValue
    /\ layoutRenders < MaxRenders
    /\ LET r == DefaultLayout_render(layoutProps, childrenCalls)
       IN /\ layoutOut' = r.out
          /\ childrenCalls' = r.calls
    /\ layoutRenders' = layoutRenders + 1
    /\ UNCHANGED <<sponsors, faq, heap, returned, sponsorsOut, faqOut,
                   sponsorsRenders, faqRenders, lastEdit, layoutProps,
                   console, constructions>>

NextLayout == LayoutConstruct \/ LayoutRender

\* The layout around either page.
SpecLayout == Init /\ [][NextLayout]_vars

----------------------------------------------------------------------------
(* Reading a rendered page *)

Rendered(out) == out # NotRendered /\ out # TypeError

ClassIs(e, c) == HasProp(e, "className") /\ e.props.className = c

\* The children of the page's <div className='container'>.
ContainerChildren(out) ==
    LET c == CHOOSE e \in Range(out.children) : ClassIs(e, "container")
    IN c.children

HasContainer(out) == \E e \in Range(out.children) : ClassIs(e, "container")

HasHeader(out) == \E e \in Range(out.children) : ClassIs(e, "header")

TextIs(e, v) == e.tag = "#text" /\ e.props.value = v

\* e is <tag>{ v }</tag>
Holds(e, tag, v) ==
    e.tag = tag /\ Len(e.children) = 1 /\ TextIs(e.children[1], v)

\* What a question block shows.
Shown(b) ==
    [question |-> b.children[1].children[1].props.value,
     answer |-> b.children[2].children[1].props.value,
     image |-> b.children[3].props.src]

Fields(q) == [question |-> q.question, answer |-> q.answer, image |-> q.image]

RECURSIVE ItemsInOrder(_, _, _)
\* The items of the categories, the categories taken in the given order.
ItemsInOrder(f, h, order) ==
    IF order = <<>> THEN <<>>
    ELSE h[f[Head(order)].value.ref] \o ItemsInOrder(f, h, Tail(order))

\* The order in which the file stores the categories.
StoredOrder(f) == Ascending(1..Len(f))

Count(s, x) == Cardinality({i \in 1..Len(s) : s[i] = x})

----------------------------------------------------------------------------
(* The claims *)

\* C1: SponsorsPage.render produces exactly one card per sponsor record, and
\* the ExternalLink of the i-th card has the url of the i-th record as its
\* target, also when records are equal.
C1_OneCardPerSponsor ==
    sponsorsRenders > 0 =>
        /\ Rendered(sponsorsOut)
        /\ HasContainer(sponsorsOut)
        /\ LET cards == ContainerChildren(sponsorsOut)
           IN /\ Len(cards) = Len(sponsors)
              /\ \A i \in 1..Len(cards) :
                    LET links == {e \in Descendants(cards[i]) :
                                     e.tag = "ExternalLink"}
                    IN /\ ClassIs(cards[i], "sponsor")
                       /\ Cardinality(links) = 1
                       /\ \A e \in links : e.props.to = sponsors[i].url

\* Two equal records have been rendered as two cards.
C1_Witness ==
    /\ sponsorsRenders > 0
    /\ Len(sponsors) = 2
    /\ sponsors[1] = sponsors[2]
    /\ Len(ContainerChildren(sponsorsOut)) = 2

\* C2: FAQPage.render produces one block per item of the grouping, in the
\* order of the categories as stored and, within a category, of its items,
\* whatever the names of the categories.
C2_BlocksInStoredOrder ==
    faqRenders > 0 =>
        /\ Rendered(faqOut)
        /\ LET blocks == ContainerChildren(faqOut)
               items == ItemsInOrder(faq, heap, StoredOrder(faq))
           IN /\ Len(blocks) = Len(items)
              /\ \A i \in 1..Len(blocks) : Shown(blocks[i]) = Fields(items[i])

C4_RenderIdempotent ==
    [][/\ sponsorsOut # NotRendered => sponsorsOut' = sponsorsOut
       /\ faqOut # NotRendered => faqOut' = faqOut]_vars

\* The FAQ page has been rendered twice, with the sponsors page rendered and
\* questions() called as well.
C4_Witness ==
    /\ faqRenders = 2
    /\ sponsorsRenders = 1
    /\ sponsors # <<>>
    /\ returned.kind = "array"
    /\ Rendered(faqOut)
    /\ ContainerChildren(faqOut) # <<>>

\* C5: an empty sponsor sequence renders the header and a container with no
\* cards, an empty FAQ grouping the header and a container with no blocks;
\* neither throws.
C5_EmptyFixtures ==
    /\ (sponsorsRenders > 0 /\ sponsors = <<>>) =>
          /\ Rendered(sponsorsOut)
          /\ HasHeader(sponsorsOut)
          /\ HasContainer(sponsorsOut)
          /\ ContainerChildren(sponsorsOut) = <<>>
    /\ (faqRenders > 0 /\ faq = <<>>) =>
          /\ Rendered(faqOut)
          /\ HasHeader(faqOut)
          /\ HasContainer(faqOut)
          /\ ContainerChildren(faqOut) = <<>>

\* Both pages have been rendered from empty fixtures.
C5_Witness ==
    /\ sponsors = <<>>
    /\ faq = <<>>
    /\ sponsorsRenders > 0
    /\ faqRenders > 0

\* C6: SponsorsPage.render never throws, whatever the records lack and also
\* when a record is null.
C6_SponsorsNeverThrow == sponsorsOut # TypeError

\* C7: FAQPage.questions and FAQPage.render never throw, also when a
\* category is null or no sequence, or an item is null.
C7_FAQNeverThrows ==
    /\ faqOut # TypeError
    /\ returned # ThrownValue

\* C8: no page holds a directly written anchor with a target of its own:
\* every outbound link is an ExternalLink.
C8_NoDirectAnchor ==
    \A e \in Descendants(sponsorsOut) \cup Descendants(faqOut) :
        e.tag = "a" => ~HasProp(e, "href")

\* C9: no call changes the fixtures: the sponsor array, the categories of faq
\* and the items of every category stay as they are.
C9_FixturesUnchanged ==
    [][/\ sponsors' = sponsors
       /\ faq' = faq
       /\ \A r \in CategoryRefs(faq) :
             r \in DOMAIN heap' /\ heap'[r] = heap[r]]_vars

\* All three methods have been called on fixtures that are not empty.
C9_Witness ==
    /\ sponsorsRenders > 0
    /\ faqRenders > 0
    /\ returned.kind = "array"
    /\ sponsors # <<>>
    /\ heap[returned.ref] # <<>>

\* C10: a sponsor card holds one ExternalLink to the sponsor's url and
\* nothing else; the 150 by 150 image, the title and the description are
\* inside that link.
C10_CardIsOneLink ==
    (sponsorsRenders > 0 /\ Rendered(sponsorsOut)) =>
        \A i \in 1..Len(ContainerChildren(sponsorsOut)) :
            LET card == ContainerChildren(sponsorsOut)[i]
            IN /\ Len(card.children) = 1
               /\ card.children[1].tag = "ExternalLink"
               /\ card.children[1].props.to = sponsors[i].url
               /\ LET inside == Descendants(card.children[1])
                  IN /\ \E e \in inside :
                           /\ e.tag = "img"
                           /\ e.props.src = sponsors[i].image
                           /\ e.props.width = "150"
                           /\ e.props.height = "150"
                     /\ \E e \in inside : Holds(e, "h4", sponsors[i].title)
                     /\ \E e \in inside : Holds(e, "p", sponsors[i].description)

\* Two sponsors with different urls have been rendered.
C10_Witness ==
    /\ sponsorsRenders > 0
    /\ Len(sponsors) = 2
    /\ sponsors[1].url # sponsors[2].url
    /\ Rendered(sponsorsOut)

\* C11: the block of an item carries its question as heading and its answer
\* as paragraph, and holds an illustration exactly when the item has an
\* image.
C11_OptionalIllustration ==
    (faqRenders > 0 /\ Rendered(faqOut)) =>
        LET blocks == ContainerChildren(faqOut)
            items == ItemsInOrder(faq, heap, ForInOrder(faq))
        IN /\ Len(blocks) = Len(items)
           /\ \A i \in 1..Len(blocks) :
                 /\ \E e \in Range(blocks[i].children) :
                       Holds(e, "h4", items[i].question)
                 /\ \E e \in Range(blocks[i].children) :
                       Holds(e, "p", items[i].answer)
                 /\ (\E e \in Descendants(blocks[i]) : e.tag = "img")
                       <=> items[i].image # UNDEFINED

\* C12: the pages share nothing.  A call of one page leaves the output of the
\* other and what the other reads as they are, and no change of faq.json
\* changes what SponsorsPage.render produces, nor any change of sponsors.json
\* what FAQPage.render produces.
C12_PagesIndependent ==
    [][/\ (sponsors' = sponsors /\ sponsorsOut # NotRendered)
              => sponsorsOut' = sponsorsOut
       /\ (faq' = faq /\ faqOut # NotRendered
              /\ \A r \in CategoryRefs(faq) : heap'[r] = heap[r])
              => faqOut' = faqOut
       /\ sponsorsRenders' # sponsorsRenders
              => faqOut' = faqOut /\ heap' = heap /\ returned' = returned
       /\ (faqRenders' # faqRenders \/ returned' # returned)
              => sponsorsOut' = sponsorsOut /\ sponsors' = sponsors]_vars

\* Each page has been rendered before and after the other's fixture changed.
C12_Witness ==
    /\ lastEdit = [file |-> "faq.json", renders |-> 1]
    /\ faq # <<>>
    /\ sponsorsRenders = 2
    /\ sponsors # <<>>

\* C13: every call runs to completion.  From every state a call of each
\* method has an outcome; questions() has run the body of its inner loop
\* once for each item of each category, pushing it, and the callback of
\* sponsors.map has run once for each record, giving its card.
C13_RunsToCompletion ==
    /\ ~FAQPage_questions(heap, faq).thrown
    /\ Rendered(FAQPage_render(heap, faq).out)
    /\ Rendered(SponsorsPage_render(sponsors))
    /\ sponsorsRenders + faqRenders < MaxRenders => ENABLED SponsorsRender
    /\ returned # UndefinedValue =>
          /\ returned.kind = "array"
          /\ Len(heap[returned.ref]) = TotalLen(heap, Len(faq))
          /\ heap[returned.ref] = ItemsInOrder(faq, heap, ForInOrder(faq))
    /\ faqRenders > 0 =>
          /\ Rendered(faqOut)
          /\ Len(ContainerChildren(faqOut)) = TotalLen(heap, Len(faq))
    /\ sponsorsRenders > 0 =>
          /\ Rendered(sponsorsOut)
          /\ Len(ContainerChildren(sponsorsOut)) = Len(sponsors)

\* questions() has returned the two items of one category, and both pages
\* have been rendered from fixtures of two entries.
C13_Witness ==
    /\ Len(faq) = 1
    /\ Len(heap[faq[1].value.ref]) = 2
    /\ returned.kind = "array"
    /\ Len(heap[returned.ref]) = 2
    /\ faqRenders > 0
    /\ sponsorsRenders > 0
    /\ Len(sponsors) = 2

\* What a sponsor card shows.
CardShown(c) ==
    LET d == Descendants(c)
    IN [url |-> (CHOOSE e \in d : e.tag = "ExternalLink").props.to,
        image |-> (CHOOSE e \in d : e.tag = "img").props.src,
        title |-> (CHOOSE e \in d : e.tag = "h4").children[1].props.value,
        description |-> (CHOOSE e \in d : e.tag = "p").children[1].props.value]

\* C14: the cards are in the order of the sponsor sequence: the i-th card
\* shows the i-th record, so equal records give a card each, at their own
\* positions.
C14_CardsInSequenceOrder ==
    sponsorsRenders > 0 =>
        /\ Rendered(sponsorsOut)
        /\ LET cards == ContainerChildren(sponsorsOut)
           IN /\ DOMAIN cards = DOMAIN sponsors
              /\ \A i \in DOMAIN cards :
                    /\ ClassIs(cards[i], "sponsor")
                    /\ CardShown(cards[i]) =
                          [url |-> sponsors[i].url,
                           image |-> sponsors[i].image,
                           title |-> sponsors[i].title,
                           description |-> sponsors[i].description]

\* Two equal records have been rendered as two cards that show the same.
C14_Witness ==
    /\ sponsorsRenders > 0
    /\ Len(sponsors) = 2
    /\ sponsors[1] = sponsors[2]
    /\ Rendered(sponsorsOut)
    /\ LET cards == ContainerChildren(sponsorsOut)
       IN /\ Len(cards) = 2
          /\ CardShown(cards[1]) = CardShown(cards[2])

\* C15: the blocks FAQPage.render emits are the projection, element by
\* element, of the sequence FAQPage.questions returns: as many blocks, the
\* i-th showing the i-th element; and no category name is anywhere in the
\* output, neither as a text nor as the value of an attribute.
C15_BlocksProjectQuestions ==
    (faqRenders > 0 /\ Rendered(faqOut)) =>
        /\ returned.kind = "array" =>
              LET blocks == ContainerChildren(faqOut)
                  qs == heap[returned.ref]
              IN /\ DOMAIN blocks = DOMAIN qs
                 /\ \A i \in DOMAIN blocks :
                       /\ ClassIs(blocks[i], "question")
                       /\ Shown(blocks[i]) = Fields(qs[i])
        /\ \A e \in Descendants(faqOut) :
              \A p \in DOMAIN e.props \ {"key"} :
                 \A i \in 1..Len(faq) : e.props[p] # faq[i].key

\* Two categories with different items, flattened by questions() and
\* rendered.
C15_Witness ==
    /\ Len(faq) = 2
    /\ heap[faq[1].value.ref] # <<>>
    /\ heap[faq[2].value.ref] # <<>>
    /\ heap[faq[1].value.ref] # heap[faq[2].value.ref]
    /\ returned.kind = "array"
    /\ faqRenders > 0
    /\ Rendered(faqOut)

\* The siblings have the keys 0, 1, ..., n-1, in this order.
KeyedByPosition(siblings) ==
    \A i \in DOMAIN siblings :
        /\ HasProp(siblings[i], "key")
        /\ siblings[i].props.key = i - 1

\* C16: within one render the i-th card, and the i-th block, has key i
\* (counted from 0): the keys of the siblings are pairwise different, also
\* when records are equal, and the key of a block is its position among all
\* blocks, not its position in its category.
C16_KeysArePositions ==
    /\ (sponsorsRenders > 0 /\ Rendered(sponsorsOut)) =>
          LET cards == ContainerChildren(sponsorsOut)
          IN /\ KeyedByPosition(cards)
             /\ \A i, j \in DOMAIN cards :
                   i # j => cards[i].props.key # cards[j].props.key
    /\ (faqRenders > 0 /\ Rendered(faqOut)) =>
          LET blocks == ContainerChildren(faqOut)
          IN /\ KeyedByPosition(blocks)
             /\ \A i, j \in DOMAIN blocks :
                   i # j => blocks[i].props.key # blocks[j].props.key

\* Two equal sponsor records and two categories of one item each have been
\* rendered: the second category's first item is the block with key 1.
C16_Witness ==
    /\ sponsorsRenders > 0
    /\ Len(sponsors) = 2
    /\ sponsors[1] = sponsors[2]
    /\ faqRenders > 0
    /\ Len(faq) = 2
    /\ Len(heap[faq[1].value.ref]) = 1
    /\ Len(heap[faq[2].value.ref]) = 1
    /\ Rendered(faqOut)
    /\ ContainerChildren(faqOut)[2].props.key = 1

\* C17: questions() returns a new array on every call, never the array of a
\* category nor the array it returned before, holding the items of the
\* categories; so whatever its caller appends to, removes from or reorders
\* in a returned array, the categories stay as they are and later calls,
\* render's included, give what they gave before.
C17_ReturnsFreshArray ==
    [][/\ faq' = faq
       /\ \A r \in CategoryRefs(faq) : r \in DOMAIN heap' /\ heap'[r] = heap[r]
       /\ returned'.kind = "array" => returned'.ref \notin CategoryRefs(faq)
       /\ (faqRenders' = faqRenders /\ lastEdit' = lastEdit) =>
             /\ returned'.kind = "array"
             /\ returned.kind = "array" => returned'.ref # returned.ref
             /\ heap'[returned'.ref] = ItemsInOrder(faq, heap, ForInOrder(faq))
       /\ faqOut # NotRendered => faqOut' = faqOut]_vars

\* The caller has changed the array it was handed, and the page has been
\* rendered before that and after it.
C17_Witness ==
    /\ lastEdit # NoEdit
    /\ lastEdit.file = "returned array"
    /\ lastEdit.renders = 1
    /\ faqRenders = 2
    /\ returned.kind = "array"
    /\ heap[returned.ref] # ItemsInOrder(faq, heap, ForInOrder(faq))
    /\ ContainerChildren(faqOut) # <<>>

NotHelmet(e) == e.tag # "Helmet"

Tags(s) == [i \in 1..Len(s) |-> s[i].tag]

\* C18: what DefaultLayout.render returns holds, after the document head
\* metadata, the header, the main region, the footer, the site banner and
\* the back-to-top control in this order; props.children has been called
\* once for every render, and what it gave is the one child of the main
\* region and occurs nowhere else in the tree.
C18_RegionsInOrder ==
    /\ childrenCalls = layoutRenders
    /\ layoutOut # NotRendered =>
          /\ Tags(SelectSeq(layoutOut.children, NotHelmet)) =
                <<"Header", "main", "Footer", "SiteBanner", "BackToTop">>
          /\ \A e \in Range(layoutOut.children) :
                IF e.tag = "main"
                THEN e.children = <<PageContent(layoutProps.children)>>
                ELSE PageContent(layoutProps.children) \notin Descendants(e)

\* The layout of the FAQ page has been rendered twice, with questions in
\* the fixture.
C18_Witness ==
    /\ layoutRenders = 2
    /\ layoutProps = [children |-> "FAQPage"]
    /\ \E e \in Range(layoutOut.children) :
          /\ e.tag = "main"
          /\ ContainerChildren(e.children[1]) # <<>>

Times(c, call) == Cardinality({i \in 1..Len(c) : c[i] = call})

Opened(c, n) == Cardinality({i \in 1..n : c[i].method = "group"})

Closed(c, n) == Cardinality({i \in 1..n : c[i].method = "groupEnd"})

\* C19: the greeting and each invite message are on the console once for
\* every DefaultLayout constructed, so once after one construction and any
\* number of renders; render writes nothing to the console; and when the
\* constructor has returned every console group has been closed, none
\* before it was opened.
C19_GreetsOncePerConstruction ==
    [][/\ Times(console', Greeting) = constructions'
       /\ Times(console', InviteHQ) = constructions'
       /\ Times(console', InviteBot) = constructions'
       /\ constructions' = constructions => console' = console
       /\ Opened(console', Len(console')) = Closed(console', Len(console'))
       /\ \A n \in 1..Len(console') :
             Closed(console', n) <= Opened(console', n)]_vars

\* One layout has been constructed and then rendered twice.
C19_Witness ==
    /\ constructions = 1
    /\ layoutRenders = 2
    /\ Times(console, InviteHQ) = 1
    /\ layoutOut # NotRendered

====
